---- MODULE Spec2Model ----
(***************************************************************************)
(* Model of scripts/obfuscate.js (class AstroObfuscator): the post-build   *)
(* pipeline that stages dist/ into dist-obfuscated/, extracts the class    *)
(* selectors of the staged stylesheets, assigns each non-ignored class a   *)
(* token 'a' + counter.toString(36), rewrites the stylesheets, and then    *)
(* rewrites the class attributes of the staged pages and the class idioms  *)
(* of the staged scripts from the persisted main.json.                     *)
(*                                                                         *)
(* File contents are sequences of one-character strings, so that the       *)
(* regular expressions and the split/join of the source act on text.       *)
(***************************************************************************)
EXTENDS Naturals, Sequences, FiniteSets

(***************************************************************************)
(* Characters and the character classes of the regular expressions.        *)
(***************************************************************************)
DQ == "\""
SQ == "'"

Letter ==
    {"a","b","c","d","e","f","g","h","i","j","k","l","m",
     "n","o","p","q","r","s","t","u","v","w","x","y","z",
     "A","B","C","D","E","F","G","H","I","J","K","L","M",
     "N","O","P","Q","R","S","T","U","V","W","X","Y","Z"}

Digit == {"0","1","2","3","4","5","6","7","8","9"}

\* [a-zA-Z0-9_-] of the selector regex
IdentChar == Letter \cup Digit \cup {"_", "-"}

\* \w of the markup regexes: what \b separates from everything else
WordChar == Letter \cup Digit \cup {"_"}

\* \s of trim() and of replace(/\s+/g, ' ')
WhiteSpace == {" ", "\t", "\n"}

(***************************************************************************)
(* String primitives of JavaScript, on sequences of characters.            *)
(***************************************************************************)
\* text.startsWith(pat, i - 1): pat occurs in text at the 1-based index i
StartsAt(text, i, pat) ==
    /\ i >= 1
    /\ i + Len(pat) <= Len(text) + 1
    /\ \A k \in 1..Len(pat) : text[i + k - 1] = pat[k]

startsWith(s, prefix) == StartsAt(s, 1, prefix)

endsWith(s, suffix) ==
    /\ Len(suffix) <= Len(s)
    /\ StartsAt(s, Len(s) - Len(suffix) + 1, suffix)

\* s.slice(0, -1)
sliceDropLast(s) == IF Len(s) = 0 THEN s ELSE SubSeq(s, 1, Len(s) - 1)

\* s.substring(1)
substring1(s) == IF Len(s) = 0 THEN s ELSE Tail(s)

\* content.split(pat).join(rep), from the 1-based index i on: every
\* occurrence of pat found scanning left to right, without overlap
RECURSIVE SplitJoinFrom(_, _, _, _)
SplitJoinFrom(text, i, pat, rep) ==
    IF i > Len(text) THEN <<>>
    ELSE IF StartsAt(text, i, pat)
         THEN rep \o SplitJoinFrom(text, i + Len(pat), pat, rep)
         ELSE <<text[i]>> \o SplitJoinFrom(text, i + 1, pat, rep)

SplitJoin(text, pat, rep) == SplitJoinFrom(text, 1, pat, rep)

\* the digits of Number.prototype.toString(36)
Digits36 ==
    <<"0","1","2","3","4","5","6","7","8","9",
      "a","b","c","d","e","f","g","h","i","j","k","l","m",
      "n","o","p","q","r","s","t","u","v","w","x","y","z">>

\* n.toString(36)
RECURSIVE toString36(_)
toString36(n) ==
    IF n < 36 THEN <<Digits36[n + 1]>>
    ELSE toString36(n \div 36) \o <<Digits36[(n % 36) + 1]>>

(***************************************************************************)
(* The selector regex /\.[a-zA-Z][a-zA-Z0-9_-]*(?![a-zA-Z0-9_-])/g.        *)
(***************************************************************************)
\* the first index >= i of text that holds no identifier character
RECURSIVE IdentRunEnd(_, _)
IdentRunEnd(text, i) ==
    IF i <= Len(text) /\ text[i] \in IdentChar
    THEN IdentRunEnd(text, i + 1)
    ELSE i

\* content.match(regex) from index i on: the matches in order, dot included;
\* the greedy run is maximal, so the lookahead holds at its end
RECURSIVE MatchFrom(_, _)
MatchFrom(text, i) ==
    IF i > Len(text) THEN <<>>
    ELSE IF text[i] = "." /\ i + 1 <= Len(text) /\ text[i + 1] \in Letter
         THEN LET e == IdentRunEnd(text, i + 2)
              IN  <<SubSeq(text, i, e - 1)>> \o MatchFrom(text, e)
         ELSE MatchFrom(text, i + 1)

\* content.match(...): the empty sequence stands for null
ClassMatchesOf(content) == MatchFrom(content, 1)

(***************************************************************************)
(* The ignore rules and the mapping object of the stylesheet script.       *)
(***************************************************************************)
\* this.config.classIgnore as the constructor sets it
DefaultClassIgnore ==
    <<<<"a","s","t","r","o","-","c","o","d","e">>,
      <<"a","s","t","r","o","-","i","s","l","a","n","d">>,
      <<"f","l","y","o","n","u","i">>,
      <<"b","t","n">>,
      <<"c","a","r","d">>,
      <<"m","o","d","a","l">>,
      <<"n","a","v","b","a","r">>,
      <<"d","r","o","p","d","o","w","n">>,
      <<"t","o","o","l","t","i","p">>,
      <<"h","e","r","o">>,
      <<"c","o","n","t","a","i","n","e","r">>,
      <<"d","a","r","k">>,
      <<"l","i","g","h","t">>,
      <<"t","h","e","m","e","-","*">>,
      <<"i","c","o","n">>,
      <<"i","c","o","n","i","f","y">>,
      <<"i","-","*">>,
      <<"a","n","i","m","a","t","e","-","*">>,
      <<"t","r","a","n","s","i","t","i","o","n","-","*">>,
      <<"s","r","-","o","n","l","y">>,
      <<"n","o","t","-","s","r","-","o","n","l","y">>,
      <<"p","r","i","n","t",":","*">>>>

\* RuleMatches with the slice forgotten: the wildcard marker stays in the prefix
RuleMatchesUnsliced(ignore, className) ==
    IF endsWith(ignore, <<"*">>)
    THEN startsWith(className, ignore)
    ELSE className = ignore

\* one rule of the .some(...) callback
RuleMatches(ignore, className) ==
    IF endsWith(ignore, <<"*">>)
    THEN startsWith(className, sliceDropLast(ignore))
    ELSE className = ignore

\* ShouldIgnore with the rules never consulted
ShouldIgnoreNever(className, rules) == FALSE

\* shouldIgnore = classIgnore.some(ignore => ...)
ShouldIgnore(className, rules) ==
    \E k \in 1..Len(rules) : RuleMatches(rules[k], className)

\* the names Object.prototype answers for on an object literal, among those
\* the selector regex can produce
ObjectPrototypeNames ==
    {<<"c","o","n","s","t","r","u","c","t","o","r">>,
     <<"h","a","s","O","w","n","P","r","o","p","e","r","t","y">>,
     <<"i","s","P","r","o","t","o","t","y","p","e","O","f">>,
     <<"p","r","o","p","e","r","t","y","I","s","E","n","u","m","e","r","a","b","l","e">>,
     <<"t","o","L","o","c","a","l","e","S","t","r","i","n","g">>,
     <<"t","o","S","t","r","i","n","g">>,
     <<"v","a","l","u","e","O","f">>}

\* A mapping object is the sequence of its own <<key, value>> entries in
\* insertion order (the keys start with a letter, so none is an array index).
Keys(mapping) == {mapping[i][1] : i \in 1..Len(mapping)}

Token(mapping, key) ==
    mapping[CHOOSE i \in 1..Len(mapping) : mapping[i][1] = key][2]

\* IsMapped with the test of line 152 dropped: every match counts as new
IsMappedNever(mapping, className) == FALSE

\* the truthiness of classMapping[className]: an own entry (a non-empty
\* string) or a member inherited from Object.prototype
IsMapped(mapping, className) ==
    className \in Keys(mapping) \/ className \in ObjectPrototypeNames

\* classMapping[className] = obfuscated
SetEntry(mapping, key, value) ==
    IF key \in Keys(mapping)
    THEN [i \in 1..Len(mapping) |->
            IF mapping[i][1] = key THEN <<key, value>> ELSE mapping[i]]
    ELSE Append(mapping, <<key, value>>)

\* 'a' + counter.toString(36)
Obfuscated(n) == <<"a">> \o toString36(n)

(***************************************************************************)
(* The three class-attribute regexes of the markup script and the          *)
(* replacement callback they share.                                        *)
(***************************************************************************)
ClassEq == <<"c","l","a","s","s","=">>

\* \b at the 1-based index i: between text[i-1] and text[i]
IsWordBoundary(text, i) ==
    LET left  == i > 1 /\ i - 1 <= Len(text) /\ text[i - 1] \in WordChar
        right == i >= 1 /\ i <= Len(text) /\ text[i] \in WordChar
    IN  left # right

\* \b original \b matches at index j
BoundedAt(text, j, original) ==
    /\ StartsAt(text, j, original)
    /\ IsWordBoundary(text, j)
    /\ IsWordBoundary(text, j + Len(original))

\* the first index >= i holding a character of S, or 0
FirstIndexIn(text, i, S) ==
    LET hits == {k \in i..Len(text) : text[k] \in S}
    IN  IF hits = {} THEN 0 ELSE CHOOSE k \in hits : \A m \in hits : k <= m

\* s.trim()
Trim(s) ==
    LET solid == {k \in 1..Len(s) : s[k] \notin WhiteSpace}
    IN  IF solid = {} THEN <<>>
        ELSE SubSeq(s, CHOOSE k \in solid : \A m \in solid : k <= m,
                       CHOOSE k \in solid : \A m \in solid : k >= m)

\* s.replace(/\s+/g, ' '), from index i on
RECURSIVE CollapseFrom(_, _)
CollapseFrom(s, i) ==
    IF i > Len(s) THEN <<>>
    ELSE IF s[i] \in WhiteSpace
         THEN LET rest == {k \in i..Len(s) : s[k] \notin WhiteSpace}
                  e == IF rest = {} THEN Len(s) + 1
                       ELSE CHOOSE k \in rest : \A m \in rest : k <= m
              IN  <<" ">> \o CollapseFrom(s, e)
         ELSE <<s[i]>> \o CollapseFrom(s, i + 1)

\* the replacement callback: 'class=' + quote +
\* (before + ' ' + obfuscated + ' ' + after).trim().replace(/\s+/g, ' ') + quote
Replacement(before, obfuscated, after, quote) ==
    ClassEq \o <<quote>>
        \o CollapseFrom(Trim(before \o <<" ">> \o obfuscated \o <<" ">> \o after), 1)
        \o <<quote>>

\* classRegex1: either quote opens, [^"']* on both sides, greedy; the callback
\* writes double quotes
classRegex1 == [open |-> {DQ, SQ}, stop |-> {DQ, SQ}, greedy |-> TRUE, quote |-> DQ]

\* classRegex2: double quotes, [^"]*? on both sides
classRegex2 == [open |-> {DQ}, stop |-> {DQ}, greedy |-> FALSE, quote |-> DQ]

\* classRegex3: single quotes, [^']*? on both sides
classRegex3 == [open |-> {SQ}, stop |-> {SQ}, greedy |-> FALSE, quote |-> SQ]

\* content.replace(regex, callback) from index i on. At an index where
\* 'class=' and an opening quote stand, the two groups cannot cross a stop
\* character, so the match ends at the first stop character q after the opening
\* quote and needs a bounded occurrence of original before q: the last one
\* when the first group is greedy, the first one when it is lazy. The search
\* resumes after q; where nothing matches, the character is kept.
RECURSIVE ReplaceFrom(_, _, _, _, _)
ReplaceFrom(text, i, rx, original, obfuscated) ==
    IF i > Len(text) THEN <<>>
    ELSE
      LET s == i + Len(ClassEq) + 1
          opens == /\ StartsAt(text, i, ClassEq)
                   /\ s - 1 <= Len(text)
                   /\ text[s - 1] \in rx.open
          q == IF opens THEN FirstIndexIn(text, s, rx.stop) ELSE 0
          at == IF q = 0 THEN {}
                ELSE {j \in s..(q - 1) :
                        /\ j + Len(original) <= q
                        /\ BoundedAt(text, j, original)}
      IN  IF at = {}
          THEN <<text[i]>> \o ReplaceFrom(text, i + 1, rx, original, obfuscated)
          ELSE LET j == IF rx.greedy
                        THEN CHOOSE k \in at : \A m \in at : k >= m
                        ELSE CHOOSE k \in at : \A m \in at : k <= m
                   before == SubSeq(text, s, j - 1)
                   after == SubSeq(text, j + Len(original), q - 1)
               IN  Replacement(before, obfuscated, after, rx.quote)
                     \o ReplaceFrom(text, q + 1, rx, original, obfuscated)

Replace(text, rx, original, obfuscated) ==
    ReplaceFrom(text, 1, rx, original, obfuscated)

\* the body of Object.entries(classMapping).forEach for one entry
RewriteEntry(content, original, obfuscated) ==
    LET newContent1 == Replace(content, classRegex1, original, obfuscated)
        newContent2 == Replace(newContent1, classRegex2, original, obfuscated)
    IN  Replace(newContent2, classRegex3, original, obfuscated)

\* Object.entries(classMapping).forEach(...) from entry k on
RECURSIVE RewriteMarkupFrom(_, _, _)
RewriteMarkupFrom(content, mapping, k) ==
    IF k > Len(mapping) THEN content
    ELSE RewriteMarkupFrom(
             RewriteEntry(content, mapping[k][1], mapping[k][2]), mapping, k + 1)

RewriteMarkup(content, mapping) == RewriteMarkupFrom(content, mapping, 1)

(***************************************************************************)
(* The three idiom regexes of the script rewriter.                         *)
(***************************************************************************)
\* the first index >= i holding no whitespace: the end of \s*
SkipSpace(text, i) ==
    LET solid == {k \in i..Len(text) : text[k] \notin WhiteSpace}
    IN  IF solid = {} THEN Len(text) + 1
        ELSE CHOOSE k \in solid : \A m \in solid : k <= m

classListDot == <<"c","l","a","s","s","L","i","s","t",".">>

\* (add|remove|toggle|contains), in the order the alternation tries them
classListMethods ==
    <<<<"a","d","d">>, <<"r","e","m","o","v","e">>,
      <<"t","o","g","g","l","e">>, <<"c","o","n","t","a","i","n","s">>>>

querySelectorWord == <<"q","u","e","r","y","S","e","l","e","c","t","o","r">>

classNameWord == <<"c","l","a","s","s","N","a","m","e">>

\* ['"\)] : what must follow the class in the first two idioms
LiteralEnd == {SQ, DQ, ")"}

\* head \( \s* ['"] lead original ['"\)] at index i, head ending before index
\* h: the index where original starts, or 0 when the idiom does not match
LiteralAt(text, h, lead, original) ==
    IF ~(h <= Len(text) /\ text[h] = "(") THEN 0
    ELSE LET o == SkipSpace(text, h + 1)
             j == o + 1 + Len(lead)
         IN  IF /\ o <= Len(text)
                /\ text[o] \in {SQ, DQ}
                /\ StartsAt(text, o + 1, lead)
                /\ StartsAt(text, j, original)
                /\ j + Len(original) <= Len(text)
                /\ text[j + Len(original)] \in LiteralEnd
             THEN j
             ELSE 0

\* classListRegex at index i: the index of the class in the literal, or 0
ClassListAt(text, i, original) ==
    IF ~StartsAt(text, i, classListDot) THEN 0
    ELSE LET m == i + Len(classListDot)
             methods == {k \in 1..Len(classListMethods) :
                            StartsAt(text, m, classListMethods[k])}
         IN  IF methods = {} THEN 0
             ELSE LET k == CHOOSE n \in methods : \A o \in methods : n <= o
                  IN  LiteralAt(text, m + Len(classListMethods[k]), <<>>, original)

\* querySelectorRegex at index i: querySelector, an optional All, then the
\* literal that starts with the class marker
QuerySelectorAt(text, i, original) ==
    IF ~StartsAt(text, i, querySelectorWord) THEN 0
    ELSE LET m == i + Len(querySelectorWord)
             h == IF StartsAt(text, m, <<"A","l","l">>) THEN m + 3 ELSE m
         IN  LiteralAt(text, h, <<".">>, original)

\* the index of the class where the idiom matches at index i, or 0
IdiomAt(idiom, text, i, original) ==
    IF idiom = "classList" THEN ClassListAt(text, i, original)
    ELSE QuerySelectorAt(text, i, original)

\* content.replace(regex, callback) for the first two idioms: where the
\* idiom matches, the class is replaced and the search resumes after the
\* character that follows it
RECURSIVE ReplaceCallFrom(_, _, _, _, _)
ReplaceCallFrom(text, i, idiom, original, obfuscated) ==
    IF i > Len(text) THEN <<>>
    ELSE LET j == IdiomAt(idiom, text, i, original)
         IN  IF j = 0
             THEN <<text[i]>>
                    \o ReplaceCallFrom(text, i + 1, idiom, original, obfuscated)
             ELSE SubSeq(text, i, j - 1) \o obfuscated
                    \o <<text[j + Len(original)]>>
                    \o ReplaceCallFrom(text, j + Len(original) + 1, idiom,
                                       original, obfuscated)

\* classNameRegex from index i on: className \s* = \s* ["'], then the last
\* bounded occurrence of original before the next quote (the first group is
\* greedy); only that occurrence is replaced, and the search resumes after
\* the closing quote
RECURSIVE ReplaceClassNameFrom(_, _, _, _)
ReplaceClassNameFrom(text, i, original, obfuscated) ==
    IF i > Len(text) THEN <<>>
    ELSE
      LET e == SkipSpace(text, i + Len(classNameWord))
          o == SkipSpace(text, e + 1)
          opens == /\ StartsAt(text, i, classNameWord)
                   /\ e <= Len(text) /\ text[e] = "="
                   /\ o <= Len(text) /\ text[o] \in {DQ, SQ}
          q == IF opens THEN FirstIndexIn(text, o + 1, {DQ, SQ}) ELSE 0
          at == IF q = 0 THEN {}
                ELSE {j \in (o + 1)..(q - 1) :
                        /\ j + Len(original) <= q
                        /\ BoundedAt(text, j, original)}
      IN  IF at = {}
          THEN <<text[i]>> \o ReplaceClassNameFrom(text, i + 1, original, obfuscated)
          ELSE LET j == CHOOSE k \in at : \A m \in at : k >= m
               IN  SubSeq(text, i, j - 1) \o obfuscated
                     \o SubSeq(text, j + Len(original), q)
                     \o ReplaceClassNameFrom(text, q + 1, original, obfuscated)

\* the body of Object.entries(classMapping).forEach of the script rewriter
RewriteScriptEntry(content, original, obfuscated) ==
    LET afterClassList ==
            ReplaceCallFrom(content, 1, "classList", original, obfuscated)
        afterQuerySelector ==
            ReplaceCallFrom(afterClassList, 1, "querySelector", original, obfuscated)
    IN  ReplaceClassNameFrom(afterQuerySelector, 1, original, obfuscated)

RECURSIVE RewriteScriptFrom(_, _, _)
RewriteScriptFrom(content, mapping, k) ==
    IF k > Len(mapping) THEN content
    ELSE RewriteScriptFrom(
             RewriteScriptEntry(content, mapping[k][1], mapping[k][2]),
             mapping, k + 1)

RewriteScript(content, mapping) == RewriteScriptFrom(content, mapping, 1)

(***************************************************************************)
(* The build artifacts a run is given.                                     *)
(***************************************************************************)
\* the most class selectors in one stylesheet of dist/
MaxRules == 2

\* the most class tokens in the class attribute of the page of dist/
MaxTokens == 3

btn == <<"b","t","n">>
primary == <<"p","r","i","m","a","r","y">>
btnPrimary == <<"b","t","n","-","p","r","i","m","a","r","y">>
hero == <<"h","e","r","o">>
heroTitle == <<"h","e","r","o","-","t","i","t","l","e">>

\* the class names the generated stylesheets are written with
ClassNames == {btn, primary, btnPrimary}

\* a class that reads like the first generated token, and a class that
\* reads like a member of Object.prototype
a1 == <<"a","1">>
constructorClass == <<"c","o","n","s","t","r","u","c","t","o","r">>

\* the stylesheets with such a class, before or after the class btn
SpecialNameLists ==
    {<<btn, a1>>, <<a1, btn>>, <<constructorClass, btn>>, <<btn, constructorClass>>}

\* a stylesheet with enough classes for a token with a letter as its digit:
\* c0, c1, ..., c9
ManyNames == [k \in 1..10 |-> <<"c", Digits36[k]>>]

\* the class names the generated pages and scripts are written with
UsedNames == {btn, btnPrimary}

\* the values of config.classIgnore a run is made with: no rule, one wildcard
\* rule, and the list the constructor sets
BtnWildcard == <<"b","t","n","-","*">>
IgnoreLists == {<<>>, <<BtnWildcard>>, DefaultClassIgnore}

\* all sequences over S of length at most n
SeqsUpTo(S, n) == UNION {[1..k -> S] : k \in 0..n}

RECURSIVE Concat(_)
Concat(parts) == IF parts = <<>> THEN <<>> ELSE Head(parts) \o Concat(Tail(parts))

\* '.x{}.y{}' for the names <<x, y>>
Stylesheet(names) ==
    Concat([k \in 1..Len(names) |-> <<".">> \o names[k] \o <<"{", "}">>])

\* the tokens joined by one space
JoinTokens(tokens) ==
    Concat([k \in 1..Len(tokens) |->
              IF k = 1 THEN tokens[k] ELSE <<" ">> \o tokens[k]])

\* '<div class="x y"></div>' for the tokens <<x, y>>, in either quoting style
Page(tokens, quote) ==
    <<"<","d","i","v"," ">> \o ClassEq \o <<quote>> \o JoinTokens(tokens)
        \o <<quote>> \o <<">","<","/","d","i","v",">">>

\* the most statements in the script of dist/
MaxStatements == 1

\* el.classList.add('x');
ClassListAdd(name) ==
    <<"e","l",".">> \o classListDot \o <<"a","d","d","(",SQ>> \o name \o <<SQ,")",";">>

\* document.querySelector(".x");
QuerySelector(name) ==
    <<"d","o","c","u","m","e","n","t",".">> \o querySelectorWord
        \o <<"(",DQ,".">> \o name \o <<DQ,")",";">>

\* el.className = "x";
ClassNameAssign(name) ==
    <<"e","l",".">> \o classNameWord \o <<" ","="," ",DQ>> \o name \o <<DQ,";">>

\* the statements the generated scripts are written with
Statements ==
    UNION {{ClassListAdd(n), QuerySelector(n), ClassNameAssign(n)} : n \in UsedNames}

\* the stylesheet and the page of the end-to-end example
ExampleStylesheet ==
    <<".">> \o hero \o <<"{","c","o","l","o","r",":","r","e","d","}">>
        \o <<".">> \o heroTitle \o <<"{","c","o","l","o","r",":","b","l","u","e","}">>

ExamplePage == Page(<<hero, heroTitle>>, DQ)

\* the relative paths by kind; old.css is a stylesheet that only an earlier
\* build had
CssPaths == {"a.css", "b.css", "old.css"}
HtmlPaths == {"index.html"}
JsPaths == {"app.js", "lib.js"}
OtherPaths == {"favicon.svg"}
Paths == CssPaths \cup HtmlPaths \cup JsPaths \cup OtherPaths

\* the order in which readdirSync and glob.sync list paths
PathOrder ==
    <<"a.css", "app.js", "b.css", "favicon.svg", "index.html", "lib.js", "old.css">>

\* the orders a directory is listed in when the script is started again:
\* PathOrder and its reverse
GlobOrders ==
    {PathOrder, [n \in 1..Len(PathOrder) |-> PathOrder[Len(PathOrder) + 1 - n]]}

\* a directory that does not exist
NoTree == [p \in {} |-> <<>>]

(***************************************************************************)
(* State.                                                                  *)
(***************************************************************************)
VARIABLES
    classIgnore,      \* this.config.classIgnore
    dist,             \* the files under distPath: path -> text
    distObfuscated,   \* the files under obfuscatedDistPath: path -> text
    mainJson,         \* obfuscation-data/main.json: <<>> when absent, else <<data>>
    pc,               \* where run() and the script it executes stand
    cssFiles,         \* the stylesheets the forEach has still to visit
    htmlFiles,        \* the pages the forEach has still to visit
    jsFiles,          \* the scripts the forEach has still to visit
    content,          \* the text of the file being processed
    classMatches,     \* the matches of the current stylesheet still to visit
    classMapping,     \* the mapping object of the running script
    counter,          \* the counter of the stylesheet script
    className,        \* the class of the last match visited
    shouldIgnore,     \* <<b>> when the ignore rules were evaluated for className
    errorLog,         \* what the catch blocks of this run logged, in order
    exitCode,         \* <<>> while the process runs, else <<its exit code>>
    runs,             \* how often the script has been started
    previous,         \* <<>> in the first run, else <<what the run before left>>
    tempScripts,      \* the temporary scripts that exist under coreObfuscatorPath
    globOrder,        \* the order in which readdirSync and glob.sync list paths
    request,          \* <<>>, else <<the request the test server is answering>>
    response          \* <<>>, else <<the last response of the test server>>:
                      \* its status, and the path it is about

vars ==
    <<classIgnore, dist, distObfuscated, mainJson, pc, cssFiles, htmlFiles,
      jsFiles, content, classMatches, classMapping, counter, className,
      shouldIgnore, errorLog, exitCode, runs, previous, tempScripts, globOrder,
      request, response>>

\* glob.sync('**/*.ext', {cwd}): the files of the tree with that extension
Glob(tree, withExt) ==
    SelectSeq(globOrder, LAMBDA p : p \in DOMAIN tree /\ p \in withExt)

\* the temporary scripts the three phases write under coreObfuscatorPath
tempCssScript == "temp-astro-css-obfuscate.js"
tempHtmlScript == "temp-astro-html-obfuscate.js"
tempJsScript == "temp-astro-js-obfuscate.js"

\* the page and the script of the trees whose stylesheets vary
BasePage == Page(<<btn, btnPrimary>>, DQ)

\* the second script of dist/ and the image of dist/: an image spells class
\* names as a page does
LibScript == ClassListAdd(btn)
Favicon == Page(<<btn, primary>>, DQ)

\* dist/ with two stylesheets, one page, two scripts and one image
Tree(a, b, page, script) ==
    [p \in Paths \ {"old.css"} |->
        IF p = "a.css" THEN a
        ELSE IF p = "b.css" THEN b
        ELSE IF p = "index.html" THEN page
        ELSE IF p = "app.js" THEN script
        ELSE IF p = "lib.js" THEN LibScript
        ELSE Favicon]

\* dist/ of a build without any stylesheet
TreeWithoutStylesheets == [p \in HtmlPaths \cup OtherPaths |->
                             IF p \in HtmlPaths THEN BasePage ELSE Favicon]

\* The trees a run may be given. The first stylesheet is any; then either the
\* second stylesheet, or the page, or the script is any and the other two are
\* the empty stylesheet, the base page and the empty script. The tree of the
\* end-to-end example is one more, the tree of a build without stylesheets
\* another. Then the trees whose stylesheet names a class that reads like a
\* generated token or like a member of Object.prototype, without ignore rule
\* and with the ignore rule a1.
Init ==
    /\ \/ /\ classIgnore \in IgnoreLists
          /\ \/ \E a \in SeqsUpTo(ClassNames, MaxRules) :
                  \/ \E b \in SeqsUpTo(ClassNames, MaxRules) :
                       dist = Tree(Stylesheet(a), Stylesheet(b), BasePage, <<>>)
                  \/ \E tokens \in SeqsUpTo(UsedNames, MaxTokens), quote \in {DQ, SQ} :
                       dist = Tree(Stylesheet(a), <<>>, Page(tokens, quote), <<>>)
                  \/ \E statements \in SeqsUpTo(Statements, MaxStatements) :
                       dist = Tree(Stylesheet(a), <<>>, BasePage, Concat(statements))
             \/ dist = Tree(ExampleStylesheet, <<>>, ExamplePage, <<>>)
             \/ dist = TreeWithoutStylesheets
       \/ /\ classIgnore \in {<<>>, <<a1>>}
          /\ \E names \in SpecialNameLists \cup {ManyNames} :
               dist = Tree(Stylesheet(names), <<>>, Page(names, DQ),
                           ClassListAdd(btn))
    /\ distObfuscated = NoTree
    /\ mainJson = <<>>
    /\ pc = "cleanup"
    /\ cssFiles = <<>>
    /\ htmlFiles = <<>>
    /\ jsFiles = <<>>
    /\ content = <<>>
    /\ classMatches = <<>>
    /\ classMapping = <<>>
    /\ counter = 1
    /\ className = <<>>
    /\ shouldIgnore = <<>>
    /\ errorLog = <<>>
    /\ exitCode = <<>>
    /\ runs = 1
    /\ previous = <<>>
    /\ tempScripts = {}
    /\ globOrder = PathOrder
    /\ request = <<>>
    /\ response = <<>>

(***************************************************************************)
(* run(): cleanup, copy, then the stylesheet script.                       *)
(***************************************************************************)
\* the files of a tree in the order readdirSync lists them
Files(tree) == Glob(tree, Paths)

\* the first k files of a tree, and the files after them
FirstFiles(tree, k) == [p \in {Files(tree)[n] : n \in 1..k} |-> tree[p]]
Remaining(tree, k) ==
    [p \in {Files(tree)[n] : n \in (k + 1)..Len(Files(tree))} |-> tree[p]]

\* this.log(message, 'error') of a catch block: the phase, and the file the
\* error message names when a file operation threw
Logged(log, phase, path) == Append(log, [phase |-> phase, path |-> path])

\* What cleanupPreviousBuild() can leave: both directories removed; or the
\* first rmSync throws after k files and the second is not reached; or the
\* second rmSync throws. existsSync guards both, so nothing throws when
\* nothing exists.
CleanupOutcomes(tree, data) ==
    {[tree |-> NoTree, data |-> <<>>, thrown |-> FALSE]}
        \cup {[tree |-> Remaining(tree, k), data |-> data, thrown |-> TRUE] :
                 k \in 0..(Len(Files(tree)) - 1)}
        \cup (IF data = <<>> THEN {}
              ELSE {[tree |-> NoTree, data |-> data, thrown |-> TRUE]})

\* cleanupPreviousBuild(): rmSync of dist-obfuscated and of obfuscation-data;
\* the catch block logs the error and cleanup returns normally
CleanupPreviousBuild ==
    /\ pc = "cleanup"
    /\ \E outcome \in CleanupOutcomes(distObfuscated, mainJson) :
         /\ distObfuscated' = outcome.tree
         /\ mainJson' = outcome.data
         /\ errorLog' = IF outcome.thrown THEN Logged(errorLog, "cleanup", "")
                        ELSE errorLog
    /\ pc' = "copy"
    /\ UNCHANGED <<classIgnore, dist, cssFiles, htmlFiles, jsFiles, content,
                   classMatches, classMapping, counter, className, shouldIgnore,
                   exitCode, runs, previous, tempScripts, globOrder, request,
                   response>>

\* copyFolderSync(src, dest): every file of src is copied into dest
copyFolderSync(src, dest) ==
    [p \in (DOMAIN src) \cup (DOMAIN dest) |->
        IF p \in DOMAIN src THEN src[p] ELSE dest[p]]

\* CopyDistToObfuscated with a move in place of the copy
CopyMovesFiles ==
    /\ pc = "copy"
    /\ distObfuscated' = copyFolderSync(dist, distObfuscated)
    /\ dist' = NoTree
    /\ pc' = "css"
    /\ UNCHANGED <<classIgnore, mainJson, cssFiles, htmlFiles, jsFiles, content,
                   classMatches, classMapping, counter, className, shouldIgnore,
                   errorLog, exitCode, runs, previous, tempScripts, globOrder, request,
                   response>>

\* copyDistToObfuscated()
CopyDistToObfuscated ==
    /\ pc = "copy"
    /\ distObfuscated' = copyFolderSync(dist, distObfuscated)
    /\ pc' = "css"
    /\ UNCHANGED <<classIgnore, dist, mainJson, cssFiles, htmlFiles, jsFiles, content,
                   classMatches, classMapping, counter, className, shouldIgnore>>
    /\ UNCHANGED <<errorLog, exitCode, runs, previous, tempScripts, globOrder, request,
                   response>>

\* copyDistToObfuscated() when copyFolderSync throws after k files: the catch
\* block logs and rethrows, the catch block of run() calls process.exit(1)
CopyFails ==
    /\ pc = "copy"
    /\ \E k \in 0..(Len(Files(dist)) - 1) :
         /\ distObfuscated' = copyFolderSync(FirstFiles(dist, k), distObfuscated)
         /\ errorLog' = Logged(errorLog, "copy", Files(dist)[k + 1])
    /\ pc' = "failed"
    /\ exitCode' = <<1>>
    /\ UNCHANGED <<classIgnore, dist, mainJson, cssFiles, htmlFiles, jsFiles, content,
                   classMatches, classMapping, counter, className, shouldIgnore,
                   runs, previous, tempScripts, globOrder, request,
                   response>>

\* the stylesheet script starts: glob.sync, classMapping = {}, counter = 1
CssStart ==
    /\ pc = "css"
    /\ cssFiles' = Glob(distObfuscated, CssPaths)
    /\ classMapping' = <<>>
    /\ counter' = 1
    /\ pc' = "cssFile"
    /\ UNCHANGED <<classIgnore, dist, distObfuscated, mainJson, htmlFiles, jsFiles,
                   content, classMatches, className, shouldIgnore>>
    /\ UNCHANGED <<errorLog, exitCode, runs, previous, globOrder, request,
                   response>>
    /\ tempScripts' = tempScripts \cup {tempCssScript}

\* cssFiles.forEach, top of the callback: the file is read and matched; a
\* file without matches is left as it is
CssReadFile ==
    /\ pc = "cssFile"
    /\ cssFiles # <<>>
    /\ LET text == distObfuscated[Head(cssFiles)]
           found == ClassMatchesOf(text)
       IN  IF found = <<>>
           THEN /\ cssFiles' = Tail(cssFiles)
                /\ UNCHANGED <<content, classMatches, pc>>
           ELSE /\ content' = text
                /\ classMatches' = found
                /\ pc' = "cssMatch"
                /\ UNCHANGED cssFiles
    /\ UNCHANGED <<classIgnore, dist, distObfuscated, mainJson, htmlFiles, jsFiles,
                   classMapping, counter, className, shouldIgnore>>
    /\ UNCHANGED <<errorLog, exitCode, runs, previous, tempScripts, globOrder, request,
                   response>>

\* NextCounter with the increment forgotten
NextCounterStuck(n) == n

\* counter++
NextCounter(n) == n + 1

\* classMatches.forEach, one match: a class that is neither mapped nor
\* ignored gets the next token, and '.' + className is replaced in the
\* text of the current file
CssMatch ==
    /\ pc = "cssMatch"
    /\ classMatches # <<>>
    /\ LET name == substring1(Head(classMatches))
       IN  /\ className' = name
           /\ classMatches' = Tail(classMatches)
           /\ IF IsMapped(classMapping, name)
              THEN /\ shouldIgnore' = <<>>
                   /\ UNCHANGED <<classMapping, counter, content>>
              ELSE LET ignored == ShouldIgnore(name, classIgnore)
                       obfuscated == Obfuscated(counter)
                   IN  /\ shouldIgnore' = <<ignored>>
                       /\ IF ignored
                          THEN UNCHANGED <<classMapping, counter, content>>
                          ELSE /\ classMapping' = SetEntry(classMapping, name, obfuscated)
                               /\ counter' = NextCounter(counter)
                               /\ content' = SplitJoin(content, <<".">> \o name,
                                                       <<".">> \o obfuscated)
    /\ UNCHANGED <<classIgnore, dist, distObfuscated, mainJson, pc, cssFiles,
                   htmlFiles, jsFiles>>
    /\ UNCHANGED <<errorLog, exitCode, runs, previous, tempScripts, globOrder, request,
                   response>>

\* fs.writeFileSync(fullPath, content), after the last match of the file
CssWriteFile ==
    /\ pc = "cssMatch"
    /\ classMatches = <<>>
    /\ distObfuscated' = [distObfuscated EXCEPT ![Head(cssFiles)] = content]
    /\ cssFiles' = Tail(cssFiles)
    /\ content' = <<>>
    /\ className' = <<>>
    /\ shouldIgnore' = <<>>
    /\ pc' = "cssFile"
    /\ UNCHANGED <<classIgnore, dist, mainJson, htmlFiles, jsFiles, classMatches,
                   classMapping, counter>>
    /\ UNCHANGED <<errorLog, exitCode, runs, previous, tempScripts, globOrder, request,
                   response>>

\* mappingData, as JSON.stringify writes it and JSON.parse reads it back: the
\* keys are no array indices, so the entries keep their insertion order
MappingData(mapping) ==
    [classes |-> mapping, timestamp |-> "toISOString", totalClasses |-> Len(mapping)]

\* CssSaveMapping that writes main.json only for a mapping with entries
CssSaveMappingWhenMapped ==
    /\ pc = "cssFile"
    /\ cssFiles = <<>>
    /\ mainJson' = IF classMapping = <<>> THEN mainJson
                   ELSE <<MappingData(classMapping)>>
    /\ pc' = "html"
    /\ UNCHANGED <<classIgnore, dist, distObfuscated, cssFiles, htmlFiles, jsFiles,
                   content, classMatches, classMapping, counter, className,
                   shouldIgnore, errorLog, exitCode, runs, previous, globOrder, request,
                   response>>
    /\ tempScripts' = tempScripts \ {tempCssScript}

\* after the last stylesheet: main.json is written and the script ends
CssSaveMapping ==
    /\ pc = "cssFile"
    /\ cssFiles = <<>>
    /\ mainJson' = <<MappingData(classMapping)>>
    /\ pc' = "html"
    /\ UNCHANGED <<classIgnore, dist, distObfuscated, cssFiles, htmlFiles, jsFiles,
                   content, classMatches, classMapping, counter, className,
                   shouldIgnore>>
    /\ UNCHANGED <<errorLog, exitCode, runs, previous, globOrder, request,
                   response>>
    /\ tempScripts' = tempScripts \ {tempCssScript}

\* the file a script is reading or writing, '' between files
CurrentFile(files) == IF files = <<>> THEN "" ELSE Head(files)

\* CssFails with a catch block that does not rethrow
CssFailsSwallowed ==
    /\ pc \in {"css", "cssFile", "cssMatch"}
    /\ pc = "cssMatch" => classMatches = <<>>
    /\ errorLog' = Logged(errorLog, "css",
                          IF pc = "css" THEN "" ELSE CurrentFile(cssFiles))
    /\ pc' = "html"
    /\ UNCHANGED <<classIgnore, dist, distObfuscated, mainJson, cssFiles, htmlFiles,
                   jsFiles, content, classMatches, classMapping, counter, className,
                   shouldIgnore, exitCode, runs, previous, tempScripts, globOrder, request,
                   response>>

\* obfuscateCSS() when writeFileSync of the script, execSync or unlinkSync
\* throws: the script can end with an error where it loads glob, reads a
\* stylesheet, writes one, or writes main.json. The catch block logs and
\* rethrows, the catch block of run() calls process.exit(1).
CssFails ==
    /\ pc \in {"css", "cssFile", "cssMatch"}
    /\ pc = "cssMatch" => classMatches = <<>>
    /\ errorLog' = Logged(errorLog, "css",
                          IF pc = "css" THEN "" ELSE CurrentFile(cssFiles))
    /\ pc' = "failed"
    /\ exitCode' = <<1>>
    /\ UNCHANGED <<classIgnore, dist, distObfuscated, mainJson, cssFiles, htmlFiles,
                   jsFiles, content, classMatches, classMapping, counter, className,
                   shouldIgnore, runs, previous, tempScripts, globOrder, request,
                   response>>

(***************************************************************************)
(* The markup script.                                                      *)
(***************************************************************************)
\* the markup script starts: without main.json it returns; else the mapping
\* is loaded and the pages are listed
HtmlStart ==
    /\ pc = "html"
    /\ IF mainJson = <<>>
       THEN /\ pc' = "js"
            /\ UNCHANGED <<classMapping, htmlFiles, jsFiles>>
       ELSE /\ classMapping' = mainJson[1].classes
            /\ htmlFiles' = Glob(distObfuscated, HtmlPaths)
            /\ pc' = "htmlFile"
    /\ UNCHANGED <<classIgnore, dist, distObfuscated, mainJson, cssFiles,
                   jsFiles, content, classMatches, counter, className,
                   shouldIgnore>>
    /\ UNCHANGED <<errorLog, exitCode, runs, previous, globOrder, request,
                   response>>
    /\ tempScripts' = IF mainJson = <<>> THEN tempScripts \ {tempHtmlScript}
                      ELSE tempScripts \cup {tempHtmlScript}

\* htmlFiles.forEach, one page: every entry is applied, the page is written
HtmlFile ==
    /\ pc = "htmlFile"
    /\ htmlFiles # <<>>
    /\ distObfuscated' =
         [distObfuscated EXCEPT ![Head(htmlFiles)] =
            RewriteMarkup(distObfuscated[Head(htmlFiles)], classMapping)]
    /\ htmlFiles' = Tail(htmlFiles)
    /\ UNCHANGED <<classIgnore, dist, mainJson, pc, cssFiles, jsFiles, content,
                   classMatches, classMapping, counter, className, shouldIgnore>>
    /\ UNCHANGED <<errorLog, exitCode, runs, previous, tempScripts, globOrder, request,
                   response>>

\* HtmlEnd with run() going on to the report
HtmlEndSkipsScripts ==
    /\ pc = "htmlFile"
    /\ htmlFiles = <<>>
    /\ pc' = "report"
    /\ UNCHANGED <<classIgnore, dist, distObfuscated, mainJson, cssFiles,
                   htmlFiles, jsFiles, content, classMatches, classMapping, counter,
                   className, shouldIgnore, errorLog, exitCode, runs, previous, globOrder, request,
                   response>>
    /\ tempScripts' = tempScripts \ {tempHtmlScript}

\* after the last page the script ends
HtmlEnd ==
    /\ pc = "htmlFile"
    /\ htmlFiles = <<>>
    /\ pc' = "js"
    /\ UNCHANGED <<classIgnore, dist, distObfuscated, mainJson, cssFiles,
                   htmlFiles, jsFiles, content, classMatches, classMapping, counter,
                   className, shouldIgnore>>
    /\ UNCHANGED <<errorLog, exitCode, runs, previous, globOrder, request,
                   response>>
    /\ tempScripts' = tempScripts \ {tempHtmlScript}

\* obfuscateHTML() when writeFileSync of the script, execSync or unlinkSync
\* throws; the catch block logs and rethrows, run() calls process.exit(1)
HtmlFails ==
    /\ pc \in {"html", "htmlFile"}
    /\ errorLog' = Logged(errorLog, "html",
                          IF pc = "html" THEN "" ELSE CurrentFile(htmlFiles))
    /\ pc' = "failed"
    /\ exitCode' = <<1>>
    /\ UNCHANGED <<classIgnore, dist, distObfuscated, mainJson, cssFiles, htmlFiles,
                   jsFiles, content, classMatches, classMapping, counter, className,
                   shouldIgnore, runs, previous, tempScripts, globOrder, request,
                   response>>

(***************************************************************************)
(* The script rewriter, the report and the end of run().                   *)
(***************************************************************************)
\* the script rewriter starts: without main.json it returns; else the
\* mapping is loaded and the scripts are listed
JsStart ==
    /\ pc = "js"
    /\ IF mainJson = <<>>
       THEN /\ pc' = "report"
            /\ UNCHANGED <<classMapping, jsFiles>>
       ELSE /\ classMapping' = mainJson[1].classes
            /\ jsFiles' = Glob(distObfuscated, JsPaths)
            /\ pc' = "jsFile"
    /\ UNCHANGED <<classIgnore, dist, distObfuscated, mainJson, cssFiles,
                   htmlFiles, content, classMatches, counter, className,
                   shouldIgnore>>
    /\ UNCHANGED <<errorLog, exitCode, runs, previous, globOrder, request,
                   response>>
    /\ tempScripts' = IF mainJson = <<>> THEN tempScripts \ {tempJsScript}
                      ELSE tempScripts \cup {tempJsScript}

\* jsFiles.forEach, one script: every entry is applied; the file is written
\* when something was replaced (a text that nothing changed stays as it is)
JsFile ==
    /\ pc = "jsFile"
    /\ jsFiles # <<>>
    /\ distObfuscated' =
         [distObfuscated EXCEPT ![Head(jsFiles)] =
            RewriteScript(distObfuscated[Head(jsFiles)], classMapping)]
    /\ jsFiles' = Tail(jsFiles)
    /\ UNCHANGED <<classIgnore, dist, mainJson, pc, cssFiles, htmlFiles,
                   content, classMatches, classMapping, counter, className,
                   shouldIgnore>>
    /\ UNCHANGED <<errorLog, exitCode, runs, previous, tempScripts, globOrder, request,
                   response>>

\* after the last script the rewriter ends
JsEnd ==
    /\ pc = "jsFile"
    /\ jsFiles = <<>>
    /\ pc' = "report"
    /\ UNCHANGED <<classIgnore, dist, distObfuscated, mainJson, cssFiles,
                   htmlFiles, jsFiles, content, classMatches, classMapping,
                   counter, className, shouldIgnore>>
    /\ UNCHANGED <<errorLog, exitCode, runs, previous, globOrder, request,
                   response>>
    /\ tempScripts' = tempScripts \ {tempJsScript}

\* JsFails with a catch block that rethrows
JsFailsFatal ==
    /\ pc \in {"js", "jsFile"}
    /\ errorLog' = Logged(errorLog, "js",
                          IF pc = "js" THEN "" ELSE CurrentFile(jsFiles))
    /\ pc' = "failed"
    /\ exitCode' = <<1>>
    /\ UNCHANGED <<classIgnore, dist, distObfuscated, mainJson, cssFiles, htmlFiles,
                   jsFiles, content, classMatches, classMapping, counter, className,
                   shouldIgnore, runs, previous, tempScripts, globOrder, request,
                   response>>

\* obfuscateJavaScript() when writeFileSync of the script, execSync or
\* unlinkSync throws. jsFiles.forEach has no try of its own: an error on one
\* script ends the rewriter, the scripts after it are not visited. The catch
\* block logs and does not rethrow, run() goes on to the report.
JsFails ==
    /\ pc \in {"js", "jsFile"}
    /\ errorLog' = Logged(errorLog, "js",
                          IF pc = "js" THEN "" ELSE CurrentFile(jsFiles))
    /\ pc' = "report"
    /\ UNCHANGED <<classIgnore, dist, distObfuscated, mainJson, cssFiles, htmlFiles,
                   jsFiles, content, classMatches, classMapping, counter, className,
                   shouldIgnore, exitCode, runs, previous, tempScripts, globOrder, request,
                   response>>

\* generateReport(): main.json is read and logged, its absence is logged as
\* an error; then run() returns and the process ends with exit code 0
GenerateReport ==
    /\ pc = "report"
    /\ errorLog' = IF mainJson = <<>> THEN Logged(errorLog, "report", "")
                   ELSE errorLog
    /\ pc' = "done"
    /\ exitCode' = <<0>>
    /\ UNCHANGED <<classIgnore, dist, distObfuscated, mainJson, cssFiles,
                   htmlFiles, jsFiles, content, classMatches, classMapping,
                   counter, className, shouldIgnore, runs, previous, tempScripts, globOrder, request,
                   response>>

Next ==
    \/ CleanupPreviousBuild
    \/ CopyDistToObfuscated
    \/ CopyFails
    \/ CssStart
    \/ CssReadFile
    \/ CssMatch
    \/ CssWriteFile
    \/ CssSaveMapping
    \/ CssFails
    \/ HtmlStart
    \/ HtmlFile
    \/ HtmlEnd
    \/ HtmlFails
    \/ JsStart
    \/ JsFile
    \/ JsEnd
    \/ JsFails
    \/ GenerateReport

Spec == Init /\ [][Next]_vars

(***************************************************************************)
(* The script started again on the same dist/, and started where an        *)
(* earlier build has left its output.                                      *)
(***************************************************************************)
\* the most starts of the script in one behaviour
MaxRuns == 2

\* What the run on an earlier build has left, a build that had the stylesheet
\* old.css '.primary{}' and the page <div class="primary"></div>: the
\* rewritten tree and its main.json.
StaleTree ==
    [p \in {"old.css", "index.html"} |->
        IF p = "old.css" THEN Stylesheet(<<Obfuscated(1)>>)
        ELSE Page(<<Obfuscated(1)>>, DQ)]
StaleMapping == MappingData(<<<<primary, Obfuscated(1)>>>>)

\* the trees of dist/ the script is started on more than once
RerunTrees ==
    {Tree(Stylesheet(<<btn, primary>>), Stylesheet(<<btnPrimary>>), BasePage,
          ClassNameAssign(btn)),
     Tree(Stylesheet(<<primary>>), <<>>, BasePage, QuerySelector(btn)),
     Tree(Stylesheet(<<btn>>), Stylesheet(<<btn>>), BasePage, <<>>),
     TreeWithoutStylesheets}

InitRerun ==
    /\ classIgnore \in IgnoreLists
    /\ dist \in RerunTrees
    /\ \E stale \in BOOLEAN :
         /\ distObfuscated = IF stale THEN StaleTree ELSE NoTree
         /\ mainJson = IF stale THEN <<StaleMapping>> ELSE <<>>
    /\ pc = "cleanup"
    /\ cssFiles = <<>>
    /\ htmlFiles = <<>>
    /\ jsFiles = <<>>
    /\ content = <<>>
    /\ classMatches = <<>>
    /\ classMapping = <<>>
    /\ counter = 1
    /\ className = <<>>
    /\ shouldIgnore = <<>>
    /\ errorLog = <<>>
    /\ exitCode = <<>>
    /\ runs = 1
    /\ previous = <<>>
    /\ tempScripts = {}
    /\ globOrder \in GlobOrders
    /\ request = <<>>
    /\ response = <<>>

\* The process has ended and the script is started again: a new
\* AstroObfuscator, run() from its first line; the files are as the ended
\* run left them. previous keeps what a run that ended with exit code 0 has
\* produced.
Rerun ==
    /\ pc \in {"done", "failed"}
    /\ runs < MaxRuns
    /\ runs' = runs + 1
    /\ previous' = IF pc = "done"
                   THEN <<[distObfuscated |-> distObfuscated,
                           classes |-> mainJson[1].classes,
                           errorLog |-> errorLog,
                           globOrder |-> globOrder]>>
                   ELSE <<>>
    /\ pc' = "cleanup"
    /\ errorLog' = <<>>
    /\ exitCode' = <<>>
    /\ cssFiles' = <<>>
    /\ htmlFiles' = <<>>
    /\ jsFiles' = <<>>
    /\ content' = <<>>
    /\ classMatches' = <<>>
    /\ classMapping' = <<>>
    /\ counter' = 1
    /\ className' = <<>>
    /\ shouldIgnore' = <<>>
    /\ globOrder' \in GlobOrders
    /\ UNCHANGED <<classIgnore, dist, distObfuscated, mainJson, tempScripts,
                   request, response>>

NextRerun ==
    \/ Next
    \/ Rerun

SpecRerun == InitRerun /\ [][NextRerun]_vars

(***************************************************************************)
(* isIgnored as a function of its own: any name against any rule list.     *)
(***************************************************************************)
\* the longest name and the longest rule isIgnored is evaluated on
MaxNameLen == 3
MaxRuleLen == 2

\* an identifier character, the hyphen of a compound name, the wildcard marker
RuleChars == {"b", "-", "*"}

\* the rule lists isIgnored is evaluated on: none, one or two rules
RuleLists ==
    LET rules == SeqsUpTo(RuleChars, MaxRuleLen)
    IN  {<<>>} \cup {<<r>> : r \in rules} \cup {<<r, s>> : r \in rules, s \in rules}

InitIgnore ==
    /\ classIgnore \in RuleLists
    /\ className \in SeqsUpTo(RuleChars, MaxNameLen)
    /\ pc = "isIgnored"
    /\ shouldIgnore = <<>>
    /\ dist = NoTree
    /\ distObfuscated = NoTree
    /\ mainJson = <<>>
    /\ cssFiles = <<>>
    /\ htmlFiles = <<>>
    /\ jsFiles = <<>>
    /\ content = <<>>
    /\ classMatches = <<>>
    /\ classMapping = <<>>
    /\ counter = 1
    /\ errorLog = <<>>
    /\ exitCode = <<>>
    /\ runs = 1
    /\ previous = <<>>
    /\ tempScripts = {}
    /\ globOrder = PathOrder
    /\ request = <<>>
    /\ response = <<>>

\* the .some(...) of lines 153-158 on className
EvaluateIgnore ==
    /\ pc = "isIgnored"
    /\ shouldIgnore' = <<ShouldIgnore(className, classIgnore)>>
    /\ pc' = "evaluated"
    /\ UNCHANGED <<classIgnore, dist, distObfuscated, mainJson, cssFiles,
                   htmlFiles, jsFiles, content, classMatches, classMapping,
                   counter, className>>
    /\ UNCHANGED <<errorLog, exitCode, runs, previous, tempScripts, globOrder, request,
                   response>>

SpecIgnore == InitIgnore /\ [][EvaluateIgnore]_vars

(***************************************************************************)
(* The test server: the request handler of createServer and serveFile.     *)
(* A path is a sequence of segments, a segment a sequence of characters;   *)
(* the string of a path is what startsWith compares.                       *)
(***************************************************************************)
\* the bound of the bounded check: the segments of a request URL
MaxSegments == 4

dotdot == <<".",".">>
client == <<"c","l","i","e","n","t">>
indexHtml == <<"i","n","d","e","x",".","h","t","m","l">>
scriptsDir == <<"s","c","r","i","p","t","s">>
distObfuscatedDir == <<"d","i","s","t","-","o","b","f","u","s","c","a","t","e","d">>

\* __dirname of test-server.js, an absolute path
dirname == <<<<"a","p","p">>, scriptsDir>>

\* path.normalize of an absolute path: a '..' segment removes the segment
\* before it, and is dropped at the root
RECURSIVE normalizeOnto(_, _)
normalizeOnto(done, segments) ==
    IF segments = <<>> THEN done
    ELSE IF Head(segments) = dotdot
         THEN normalizeOnto(IF done = <<>> THEN <<>>
                            ELSE SubSeq(done, 1, Len(done) - 1), Tail(segments))
         ELSE normalizeOnto(Append(done, Head(segments)), Tail(segments))

normalize(segments) == normalizeOnto(<<>>, segments)

\* this.obfuscatedDistPath = path.resolve(__dirname, '../dist-obfuscated')
obfuscatedDistPath == normalize(dirname \o <<dotdot, distObfuscatedDir>>)

\* the string of an absolute path
RECURSIVE PathString(_)
PathString(segments) ==
    IF segments = <<>> THEN <<>>
    ELSE <<"/">> \o Head(segments) \o PathString(Tail(segments))

\* the directory beside the build whose name starts with the build's name,
\* and the files on disk: the pages of the build, a file of the build outside
\* client/, a file in the directory beside it and a file of the application
siblingDir == <<"d","i","s","t","-","o","b","f","u","s","c","a","t","e","d","-","x">>
about == <<"a","b","o","u","t">>
aboutHtml == <<"a","b","o","u","t",".","h","t","m","l">>
secret == <<"s","e","c","r","e","t">>
ServerFiles ==
    {obfuscatedDistPath \o <<client, indexHtml>>,
     obfuscatedDistPath \o <<client, aboutHtml>>,
     obfuscatedDistPath \o <<secret>>,
     <<<<"a","p","p">>, siblingDir, secret>>,
     <<<<"a","p","p">>, secret>>}

\* the directories on disk
ServerDirs ==
    UNION {{SubSeq(f, 1, k) : k \in 0..(Len(f) - 1)} : f \in ServerFiles}

\* fs.access(path, F_OK): no error for a file or a directory on disk
Accessible(filePath) == filePath \in ServerFiles \cup ServerDirs

\* filePath + '.html'
WithHtml(filePath) ==
    [filePath EXCEPT ![Len(filePath)] = @ \o <<".","h","t","m","l">>]

\* req.method and req.url: the URL is a slash followed by segments
Methods == {"GET", "OPTIONS"}
UrlSegments == {dotdot, indexHtml, about, secret, siblingDir}
Urls == SeqsUpTo(UrlSegments, MaxSegments)

\* the handler of createServer up to its first asynchronous call: OPTIONS is
\* answered at once; the path is joined and normalised, refused when its
\* string does not start with the string of obfuscatedDistPath, and else
\* handed to fs.access
HandleRequest ==
    /\ request = <<>>
    /\ \E method \in Methods, url \in Urls :
         LET joined == IF url = <<>> \/ url = <<indexHtml>>
                       THEN obfuscatedDistPath \o <<client, indexHtml>>
                       ELSE normalize(obfuscatedDistPath \o <<client>> \o url)
             filePath == normalize(joined)
         IN  IF method = "OPTIONS"
             THEN /\ response' = <<[status |-> 200, url |-> url, filePath |-> <<>>]>>
                  /\ UNCHANGED request
             ELSE IF ~StartsAt(PathString(filePath), 1, PathString(obfuscatedDistPath))
             THEN /\ response' = <<[status |-> 403, url |-> url,
                                    filePath |-> filePath]>>
                  /\ UNCHANGED request
             ELSE /\ request' = <<[url |-> url, filePath |-> filePath,
                                   stage |-> "access"]>>
                  /\ response' = <<>>
    /\ UNCHANGED <<classIgnore, dist, distObfuscated, mainJson, pc, cssFiles,
                   htmlFiles, jsFiles, content, classMatches, classMapping,
                   counter, className, shouldIgnore, errorLog, exitCode, runs,
                   previous, tempScripts, globOrder>>

\* the callback of fs.access(filePath): serveFile, or fs.access of the path
\* with .html added
AccessCallback ==
    /\ request # <<>>
    /\ request[1].stage = "access"
    /\ request' = <<[request[1] EXCEPT
                       !.stage = IF Accessible(request[1].filePath)
                                 THEN "readFile" ELSE "accessHtml"]>>
    /\ UNCHANGED <<classIgnore, dist, distObfuscated, mainJson, pc, cssFiles,
                   htmlFiles, jsFiles, content, classMatches, classMapping,
                   counter, className, shouldIgnore, errorLog, exitCode, runs,
                   previous, tempScripts, globOrder, response>>

\* the callback of fs.access(htmlFilePath): 404, or serveFile(htmlFilePath)
HtmlAccessCallback ==
    /\ request # <<>>
    /\ request[1].stage = "accessHtml"
    /\ LET htmlFilePath == WithHtml(request[1].filePath)
       IN  IF Accessible(htmlFilePath)
           THEN /\ request' = <<[request[1] EXCEPT !.filePath = htmlFilePath,
                                                   !.stage = "readFile"]>>
                /\ UNCHANGED response
           ELSE /\ request' = <<>>
                /\ response' = <<[status |-> 404, url |-> request[1].url,
                                  filePath |-> htmlFilePath]>>
    /\ UNCHANGED <<classIgnore, dist, distObfuscated, mainJson, pc, cssFiles,
                   htmlFiles, jsFiles, content, classMatches, classMapping,
                   counter, className, shouldIgnore, errorLog, exitCode, runs,
                   previous, tempScripts, globOrder>>

\* whether fs.readFile may end with an error: always for a directory, and
\* for a file when the read fails
ReadErrors(filePath) ==
    IF filePath \in ServerFiles THEN {FALSE, TRUE} ELSE {TRUE}

\* serveFile: the callback of fs.readFile answers 500 on an error and else
\* 200 with the data of the file
serveFile ==
    /\ request # <<>>
    /\ request[1].stage = "readFile"
    /\ \E err \in ReadErrors(request[1].filePath) :
         response' = <<[status |-> IF err THEN 500 ELSE 200,
                        url |-> request[1].url,
                        filePath |-> request[1].filePath]>>
    /\ request' = <<>>
    /\ UNCHANGED <<classIgnore, dist, distObfuscated, mainJson, pc, cssFiles,
                   htmlFiles, jsFiles, content, classMatches, classMapping,
                   counter, className, shouldIgnore, errorLog, exitCode, runs,
                   previous, tempScripts, globOrder>>

\* the server after start(): listening, no request received
InitServer ==
    /\ classIgnore = DefaultClassIgnore
    /\ dist = NoTree
    /\ distObfuscated = NoTree
    /\ mainJson = <<>>
    /\ pc = "done"
    /\ cssFiles = <<>>
    /\ htmlFiles = <<>>
    /\ jsFiles = <<>>
    /\ content = <<>>
    /\ classMatches = <<>>
    /\ classMapping = <<>>
    /\ counter = 1
    /\ className = <<>>
    /\ shouldIgnore = <<>>
    /\ errorLog = <<>>
    /\ exitCode = <<>>
    /\ runs = 1
    /\ previous = <<>>
    /\ tempScripts = {}
    /\ globOrder = PathOrder
    /\ request = <<>>
    /\ response = <<>>

NextServer ==
    \/ HandleRequest
    \/ AccessCallback
    \/ HtmlAccessCallback
    \/ serveFile

SpecServer == InitServer /\ [][NextServer]_vars

(***************************************************************************)
(* What the properties below read off the files, stated without the        *)
(* rewriters.                                                              *)
(***************************************************************************)
\* the class names of the selector occurrences of a stylesheet, in order
Selectors(text) ==
    LET found == ClassMatchesOf(text)
    IN  [k \in 1..Len(found) |-> Tail(found[k])]

\* the values of the class attributes of a page, in order: what stands
\* between class=, a quote and the next quote of the same kind
RECURSIVE AttrValuesFrom(_, _)
AttrValuesFrom(text, i) ==
    IF i > Len(text) THEN <<>>
    ELSE LET s == i + Len(ClassEq) + 1
             q == IF /\ StartsAt(text, i, ClassEq)
                     /\ s - 1 <= Len(text)
                     /\ text[s - 1] \in {DQ, SQ}
                  THEN FirstIndexIn(text, s, {text[s - 1]})
                  ELSE 0
         IN  IF q = 0 THEN AttrValuesFrom(text, i + 1)
             ELSE <<SubSeq(text, s, q - 1)>> \o AttrValuesFrom(text, q + 1)

AttrValues(text) == AttrValuesFrom(text, 1)

\* the whitespace-delimited tokens of an attribute value, in order
RECURSIVE TokensFrom(_, _)
TokensFrom(value, i) ==
    IF i > Len(value) THEN <<>>
    ELSE IF value[i] \in WhiteSpace THEN TokensFrom(value, i + 1)
    ELSE LET e == FirstIndexIn(value, i, WhiteSpace)
             stop == IF e = 0 THEN Len(value) + 1 ELSE e
         IN  <<SubSeq(value, i, stop - 1)>> \o TokensFrom(value, stop)

Tokens(value) == TokensFrom(value, 1)

\* the maximal runs of identifier characters of a text, in order: the names
\* a file of any kind spells out
RECURSIVE IdentRunsFrom(_, _)
IdentRunsFrom(text, i) ==
    IF i > Len(text) THEN <<>>
    ELSE IF text[i] \notin IdentChar THEN IdentRunsFrom(text, i + 1)
    ELSE LET e == IdentRunEnd(text, i)
         IN  <<SubSeq(text, i, e - 1)>> \o IdentRunsFrom(text, e)

IdentRuns(text) == IdentRunsFrom(text, 1)

\* how often x stands in the sequence s
Count(x, s) == Cardinality({k \in 1..Len(s) : s[k] = x})

\* The rule of the ignore matcher as the specification words it: some rule
\* without a trailing wildcard marker equals the name, or some rule ends with
\* the marker and the name is the text before the marker followed by anything.
IgnoredBySpec(name, rules) ==
    \E k \in 1..Len(rules) :
        LET r == rules[k]
            wildcard == Len(r) > 0 /\ r[Len(r)] = "*"
        IN  \/ ~wildcard /\ name = r
            \/ /\ wildcard
               /\ Len(name) >= Len(r) - 1
               /\ \A n \in 1..(Len(r) - 1) : name[n] = r[n]

\* X is a proper prefix of Y and Y goes on with an identifier character
ProperPrefix(X, Y) ==
    /\ Len(X) < Len(Y)
    /\ \A n \in 1..Len(X) : Y[n] = X[n]
    /\ Y[Len(X) + 1] \in IdentChar

\* the stylesheet script has ended
AfterStylesheets == pc \in {"html", "htmlFile", "js", "jsFile", "report", "done"}

\* the markup script has ended
AfterMarkup == pc \in {"js", "jsFile", "report", "done"}

\* the string literals a script assigns to className, in order: what stands
\* between className, an equals sign, a quote and the next quote
RECURSIVE AssignedFrom(_, _)
AssignedFrom(text, i) ==
    IF i > Len(text) THEN <<>>
    ELSE LET e == SkipSpace(text, i + Len(classNameWord))
             o == SkipSpace(text, e + 1)
             q == IF /\ StartsAt(text, i, classNameWord)
                     /\ e <= Len(text) /\ text[e] = "="
                     /\ o <= Len(text) /\ text[o] \in {DQ, SQ}
                  THEN FirstIndexIn(text, o + 1, {DQ, SQ})
                  ELSE 0
         IN  IF q = 0 THEN AssignedFrom(text, i + 1)
             ELSE <<SubSeq(text, o + 1, q - 1)>> \o AssignedFrom(text, q + 1)

Assigned(text) == AssignedFrom(text, 1)

\* the phase of run() a position belongs to, in the order run() awaits them;
\* 7 is the end of the process
Phase(at) ==
    CASE at = "cleanup" -> 1
      [] at = "copy" -> 2
      [] at \in {"css", "cssFile", "cssMatch"} -> 3
      [] at \in {"html", "htmlFile"} -> 4
      [] at \in {"js", "jsFile"} -> 5
      [] at = "report" -> 6
      [] OTHER -> 7

\* the entries of a log written by the catch block of one of the phases
LoggedBy(log, phases) == {n \in 1..Len(log) : log[n].phase \in phases}

(***************************************************************************)
(* Properties.                                                             *)
(***************************************************************************)
\* C1 (substring safety in stylesheets): once the stylesheet script has
\* ended, a selector occurrence '.Y' of which some mapping key X is a proper
\* prefix has not been altered by the substitution of X: it reads '.Y' as
\* before or '.' + token(Y), and '.Y' when Y is no key.
SubstringSafety ==
    AfterStylesheets =>
        \A f \in CssPaths \cap DOMAIN dist :
            LET src == Selectors(dist[f])
                out == Selectors(distObfuscated[f])
            IN  \A k \in 1..Len(src) :
                    (\E X \in Keys(classMapping) : ProperPrefix(X, src[k])) =>
                        /\ k <= Len(out)
                        /\ IF src[k] \in Keys(classMapping)
                           THEN out[k] \in {src[k], Token(classMapping, src[k])}
                           ELSE out[k] = src[k]

\* C2 (markup consistency): once the markup script has ended, no token of any
\* class attribute of any page is a mapping key, and every mapping key X
\* that stood in an attribute stands there as token(X), once for each of its
\* occurrences.
MarkupConsistency ==
    AfterMarkup =>
        \A f \in HtmlPaths :
            LET src == AttrValues(dist[f])
                out == AttrValues(distObfuscated[f])
            IN  /\ Len(out) = Len(src)
                /\ \A a \in 1..Len(src) :
                     LET st == Tokens(src[a])
                         ot == IF a <= Len(out) THEN Tokens(out[a]) ELSE <<>>
                     IN  /\ \A j \in 1..Len(ot) : ot[j] \notin Keys(classMapping)
                         /\ \A j \in 1..Len(st) :
                               st[j] \in Keys(classMapping) =>
                                   Count(Token(classMapping, st[j]), ot)
                                       >= Count(st[j], st)

\* C3 (only exact tokens change): once the markup script has ended, every
\* class attribute has as many tokens as before, every token that is no
\* mapping key stands unchanged at its position, and the attribute
\* 'btn btn-primary' with both names mapped reads token(btn), one space,
\* token(btn-primary).
MarkupExactTokens ==
    AfterMarkup =>
        \A f \in HtmlPaths :
            LET src == AttrValues(dist[f])
                out == AttrValues(distObfuscated[f])
            IN  /\ Len(out) = Len(src)
                /\ \A a \in 1..Len(src) :
                     LET st == Tokens(src[a])
                         ot == IF a <= Len(out) THEN Tokens(out[a]) ELSE <<>>
                     IN  /\ Len(ot) = Len(st)
                         /\ \A j \in 1..Len(st) :
                               st[j] \notin Keys(classMapping) =>
                                   j <= Len(ot) /\ ot[j] = st[j]
                         /\ (st = <<btn, btnPrimary>>
                               /\ {btn, btnPrimary} \subseteq Keys(classMapping)) =>
                                out[a] = Token(classMapping, btn) \o <<" ">>
                                           \o Token(classMapping, btnPrimary)

\* C4 (end-to-end example): the run on the example tree without ignore rules
\* ends with the mapping {hero: a1, hero-title: a2}, the page
\* <div class="a1 a2"></div> and the stylesheet .a1{color:red}.a2{color:blue}.
EndToEndExample ==
    (/\ pc = "done"
     /\ classIgnore = <<>>
     /\ dist = Tree(ExampleStylesheet, <<>>, ExamplePage, <<>>)) =>
        /\ mainJson # <<>>
        /\ mainJson[1].classes = <<<<hero, <<"a","1">>>>, <<heroTitle, <<"a","2">>>>>>
        /\ distObfuscated["index.html"] = Page(<<<<"a","1">>, <<"a","2">>>>, DQ)
        /\ distObfuscated["a.css"] =
             <<".","a","1","{","c","o","l","o","r",":","r","e","d","}",
               ".","a","2","{","c","o","l","o","r",":","b","l","u","e","}">>

\* C5 (stylesheet completeness across files): once the stylesheet script has
\* ended, no stylesheet of the destination tree still holds a selector
\* occurrence '.X' of a mapping key X: each has been replaced.
StylesheetCompleteness ==
    AfterStylesheets =>
        \A f \in CssPaths \cap DOMAIN dist :
            \A k \in 1..Len(Selectors(distObfuscated[f])) :
                Selectors(distObfuscated[f])[k] \notin Keys(classMapping)

\* C6 (ignored classes are untouched): when the run has ended, every name of
\* a source file that an ignore rule matches stands in the output file as
\* often as in the source file.
IgnoredUntouched ==
    pc = "done" =>
        \A f \in DOMAIN dist :
            LET src == IdentRuns(dist[f])
                out == IdentRuns(distObfuscated[f])
            IN  \A k \in 1..Len(src) :
                    IgnoredBySpec(src[k], classIgnore) =>
                        Count(src[k], out) = Count(src[k], src)

\* C7 (ignore precedence): in every state no key of the mapping object, nor
\* of the persisted mapping, is matched by an ignore rule.
IgnorePrecedence ==
    /\ \A X \in Keys(classMapping) : ~IgnoredBySpec(X, classIgnore)
    /\ mainJson # <<>> =>
         \A X \in Keys(mainJson[1].classes) : ~IgnoredBySpec(X, classIgnore)

\* C7 witness: a class was skipped for a rule while the mapping holds entries
IgnoredWhileMapping ==
    /\ pc = "cssMatch"
    /\ shouldIgnore = <<TRUE>>
    /\ classMapping # <<>>

\* C8 (non-collision): in every state two distinct entries of the mapping
\* hold different tokens.
NonCollision ==
    \A i, j \in 1..Len(classMapping) :
        i # j => /\ classMapping[i][1] # classMapping[j][1]
                 /\ classMapping[i][2] # classMapping[j][2]

\* C8 witness: the mapping holds every class name of the stylesheets
SeveralEntries ==
    /\ Len(classMapping) >= 2
    /\ classIgnore = <<>>

\* C9 (assignment immutability): no step changes or removes the token of a
\* class that has one; the mapping the markup and the script phase load
\* holds the same token for it.
AssignmentImmutable ==
    [][\A X \in Keys(classMapping) :
          /\ X \in Keys(classMapping')
          /\ Token(classMapping', X) = Token(classMapping, X)]_vars

\* C9 witness: a mapped class is met again in the second stylesheet
MetAgainInLaterFile ==
    /\ pc = "cssMatch"
    /\ Head(cssFiles) = "b.css"
    /\ className \in Keys(classMapping)
    /\ shouldIgnore = <<>>

\* C10 (isIgnored): the value the .some(...) computes for a name and a rule
\* list is true exactly when a rule matches the name in the sense of
\* IgnoredBySpec.
IsIgnoredExact ==
    shouldIgnore # <<>> =>
        (shouldIgnore[1] <=> IgnoredBySpec(className, classIgnore))

\* C10 witness: a wildcard rule has matched a name longer than its prefix
WildcardMatched ==
    /\ pc = "evaluated"
    /\ shouldIgnore = <<TRUE>>
    /\ classIgnore = <<<<"b", "*">>>>
    /\ className = <<"b", "-", "b">>

\* C11 (phase ordering): every step of a run stays in its phase, or goes on
\* to the phase that follows it in the order cleanup, copy, stylesheets,
\* markup, scripts, report, end, or ends the run as failed; no step goes back
\* to an earlier phase or skips one.
PhaseOrder ==
    [][\/ Phase(pc') = Phase(pc)
       \/ Phase(pc') = Phase(pc) + 1
       \/ pc' = "failed"]_vars

\* C11 witness: a run has gone through all phases and rewritten its copy
AllPhasesRan ==
    /\ pc = "done"
    /\ errorLog = <<>>
    /\ classMapping # <<>>
    /\ distObfuscated # dist

\* C12 (fatal failures): in every state where the catch block of the copy,
\* the stylesheet or the markup phase has logged an error, the run stands in
\* failed with exit code 1, so no step of a later phase has followed the
\* failure; and a failed run has exit code 1.
FatalFailures ==
    /\ LoggedBy(errorLog, {"copy", "css", "html"}) # {} =>
          /\ pc = "failed"
          /\ exitCode = <<1>>
          /\ LoggedBy(errorLog, {"js", "report"}) = {}
    /\ pc = "failed" => exitCode = <<1>>

\* C12 witness: the stylesheet script has failed after it rewrote a stylesheet
StylesheetPhaseFailed ==
    /\ pc = "failed"
    /\ LoggedBy(errorLog, {"css"}) # {}
    /\ distObfuscated # dist
    /\ mainJson = <<>>

\* C13 (script failure is not fatal): in every state where the catch block of
\* the script phase has logged an error, the run stands at the report or has
\* ended, it has not failed, and when it has ended its exit code is 0.
ScriptFailureNotFatal ==
    LoggedBy(errorLog, {"js"}) # {} =>
        /\ pc \in {"report", "done"}
        /\ exitCode # <<1>>
        /\ pc = "done" => exitCode = <<0>>

\* C13 witness: a run has ended with exit code 0 after its script phase failed
EndedAfterScriptFailure ==
    /\ pc = "done"
    /\ exitCode = <<0>>
    /\ LoggedBy(errorLog, {"js"}) # {}

\* C14 (per-file isolation of script errors): when the script phase has ended
\* with an error on one script, every other script of the destination tree
\* reads as the rewriter leaves the source script under the mapping of
\* main.json.
ScriptErrorIsolated ==
    (pc \in {"report", "done"} /\ mainJson # <<>>) =>
        \A n \in LoggedBy(errorLog, {"js"}) :
            errorLog[n].path # "" =>
                \A g \in (JsPaths \cap DOMAIN distObfuscated) \ {errorLog[n].path} :
                    distObfuscated[g] = RewriteScript(dist[g], mainJson[1].classes)

\* C15 (mapping artifact): when a run has ended with exit code 0, main.json
\* exists and holds the mapping of the run, a timestamp, and as total the
\* number of entries of the mapping.
MappingArtifact ==
    (pc = "done" /\ exitCode = <<0>>) =>
        /\ mainJson # <<>>
        /\ DOMAIN mainJson[1] = {"classes", "timestamp", "totalClasses"}
        /\ mainJson[1].classes = classMapping
        /\ mainJson[1].totalClasses = Cardinality(Keys(mainJson[1].classes))

\* C15 witness: a run on a tree without stylesheets has ended with exit code
\* 0 and an empty mapping
EndedWithoutStylesheets ==
    /\ pc = "done"
    /\ exitCode = <<0>>
    /\ DOMAIN dist \cap CssPaths = {}
    /\ mainJson # <<>>
    /\ mainJson[1].totalClasses = 0

\* C16 (fresh start): whenever the copy phase begins, the destination tree
\* and main.json of an earlier run do not exist.
FreshStart ==
    pc = "copy" => (distObfuscated = NoTree /\ mainJson = <<>>)

\* C17 (idempotence): when a run has ended with exit code 0 and the run
\* before it, on the same dist/ listed in the same order, has too, and the
\* script phase of neither has logged an error, both have produced the same
\* mapping and the same destination tree.
Idempotent ==
    (/\ pc = "done"
     /\ previous # <<>>
     /\ globOrder = previous[1].globOrder
     /\ LoggedBy(errorLog, {"js"}) = {}
     /\ LoggedBy(previous[1].errorLog, {"js"}) = {}) =>
        /\ mainJson # <<>>
        /\ mainJson[1].classes = previous[1].classes
        /\ distObfuscated = previous[1].distObfuscated

\* C18 (copy is verbatim): when a run has ended with exit code 0, the
\* destination tree has exactly the paths of dist/, and every file that is
\* neither stylesheet, page nor script reads as in dist/.
CopiedVerbatim ==
    (pc = "done" /\ exitCode = <<0>>) =>
        /\ DOMAIN distObfuscated = DOMAIN dist
        /\ \A f \in OtherPaths \cap DOMAIN dist : distObfuscated[f] = dist[f]

\* C19 (the source is read-only): no step of a run changes a file of dist/,
\* adds one or removes one.
SourceUntouched == [][dist' = dist]_vars

\* C19 witness: a run has ended and its copy differs from dist/
RewrittenBesideSource ==
    /\ pc = "done"
    /\ DOMAIN distObfuscated = DOMAIN dist
    /\ \E f \in DOMAIN dist : distObfuscated[f] # dist[f]

\* C20 (className idiom): when the script phase has ended without error,
\* every string literal assigned to className has as many whitespace-delimited
\* tokens as before, and each token reads as before or, when it is a
\* mapping key, as the token of that key; so "btn-primary" with btn mapped
\* and btn-primary not mapped reads "btn-primary".
ClassNameWholeTokens ==
    (pc \in {"report", "done"} /\ mainJson # <<>>
       /\ LoggedBy(errorLog, {"js"}) = {}) =>
        \A f \in JsPaths \cap DOMAIN dist :
            LET src == Assigned(dist[f])
                out == Assigned(distObfuscated[f])
                keys == Keys(mainJson[1].classes)
            IN  /\ Len(out) = Len(src)
                /\ \A a \in 1..Len(src) :
                     LET st == Tokens(src[a])
                         ot == IF a <= Len(out) THEN Tokens(out[a]) ELSE <<>>
                     IN  /\ Len(ot) = Len(st)
                         /\ \A j \in 1..Len(st) :
                               j <= Len(ot) =>
                                 \/ ot[j] = st[j]
                                 \/ /\ st[j] \in keys
                                    /\ ot[j] = Token(mainJson[1].classes, st[j])

\* the arguments of the classList calls of a script, in order: what stands
\* between classList, a method, the parenthesis, a quote and the next quote
RECURSIVE ClassListArgsFrom(_, _)
ClassListArgsFrom(text, i) ==
    IF i > Len(text) THEN <<>>
    ELSE LET methods == {k \in 1..Len(classListMethods) :
                            StartsAt(text, i, classListDot \o classListMethods[k]
                                                \o <<"(">>)}
             k == CHOOSE n \in methods : TRUE
             o == SkipSpace(text, i + Len(classListDot)
                                    + Len(classListMethods[k]) + 1)
             q == IF methods # {} /\ o <= Len(text) /\ text[o] \in {DQ, SQ}
                  THEN FirstIndexIn(text, o + 1, {DQ, SQ})
                  ELSE 0
         IN  IF q = 0 THEN ClassListArgsFrom(text, i + 1)
             ELSE <<SubSeq(text, o + 1, q - 1)>> \o ClassListArgsFrom(text, q + 1)

ClassListArgs(text) == ClassListArgsFrom(text, 1)

\* C21 (classList idiom): when the script phase has ended without error,
\* every string literal that is the argument of a classList call reads as the
\* token of the key it was equal to, and reads as before when it was equal to
\* no key, also when a key is a proper prefix or suffix of it.
ClassListExact ==
    (pc \in {"report", "done"} /\ mainJson # <<>>
       /\ LoggedBy(errorLog, {"js"}) = {}) =>
        \A f \in JsPaths \cap DOMAIN dist :
            LET src == ClassListArgs(dist[f])
                out == ClassListArgs(distObfuscated[f])
                keys == Keys(mainJson[1].classes)
            IN  /\ Len(out) = Len(src)
                /\ \A a \in 1..Len(src) :
                     a <= Len(out) =>
                       out[a] = IF src[a] \in keys
                                THEN Token(mainJson[1].classes, src[a])
                                ELSE src[a]

\* the distinct names of a sequence of names that no ignore rule matches, in
\* the order of their first occurrence
RECURSIVE DistinctNotIgnored(_, _, _)
DistinctNotIgnored(names, seen, rules) ==
    IF names = <<>> THEN <<>>
    ELSE IF Head(names) \in seen \/ IgnoredBySpec(Head(names), rules)
         THEN DistinctNotIgnored(Tail(names), seen, rules)
         ELSE <<Head(names)>>
              \o DistinctNotIgnored(Tail(names), seen \cup {Head(names)}, rules)

\* the selector occurrences of the stylesheets of a tree, file after file
RECURSIVE SelectorsOf(_, _)
SelectorsOf(tree, files) ==
    IF files = <<>> THEN <<>>
    ELSE Selectors(tree[Head(files)]) \o SelectorsOf(tree, Tail(files))

\* the classes of the source stylesheets in discovery order
Discovered ==
    DistinctNotIgnored(SelectorsOf(dist, Glob(dist, CssPaths)), {}, classIgnore)

\* C22 (sequential tokens): the persisted mapping lists the distinct
\* non-ignored classes of the stylesheets in discovery order, and its k-th
\* entry gives the k-th of them the token 'a' followed by k in base 36; the
\* mapping is thereby a function of the input.
SequentialTokens ==
    mainJson # <<>> =>
        LET classes == mainJson[1].classes
        IN  /\ Len(classes) = Len(Discovered)
            /\ \A k \in 1..Len(classes) :
                 k <= Len(Discovered) =>
                    classes[k] = <<Discovered[k], <<"a">> \o toString36(k)>>

\* a substitution has been applied: a file of the output tree, or the text of
\* the stylesheet being processed, no longer reads as its source
Substituted ==
    \/ \E f \in DOMAIN distObfuscated \cap DOMAIN dist : distObfuscated[f] # dist[f]
    \/ /\ pc = "cssMatch"
       /\ Head(cssFiles) \in DOMAIN dist
       /\ content # dist[Head(cssFiles)]

\* C23 (mapping frozen before rewriting): once a substitution has been
\* applied to any file, no step adds an entry to the mapping table.
MappingFrozen ==
    [][Substituted => Keys(classMapping') \subseteq Keys(classMapping)]_vars

\* C24 (order independence): when two runs on the same dist/ have ended
\* without any logged error, whatever the order in which each has visited
\* the files of a phase, every file of the destination tree reads the same
\* after both.
OrderIndependent ==
    (/\ pc = "done"
     /\ previous # <<>>
     /\ errorLog = <<>>
     /\ previous[1].errorLog = <<>>) =>
        distObfuscated = previous[1].distObfuscated

\* C25 (tokens avoid ignored names): no token of the mapping table equals an
\* ignore rule that has no trailing wildcard marker.
TokensAvoidIgnored ==
    \A i \in 1..Len(classMapping), k \in 1..Len(classIgnore) :
        LET R == classIgnore[k]
        IN  ~(Len(R) > 0 /\ R[Len(R)] = "*") => classMapping[i][2] # R

\* C26 (no chained substitution): no token of the mapping table is itself a
\* key of the table, so no text written as a token is rewritten by another
\* entry.
NoChainedSubstitution ==
    \A i \in 1..Len(classMapping) :
        classMapping[i][2] \notin Keys(classMapping)

\* the path is the build root or lies under it
InsideRoot(filePath) ==
    /\ Len(filePath) >= Len(obfuscatedDistPath)
    /\ SubSeq(filePath, 1, Len(obfuscatedDistPath)) = obfuscatedDistPath

\* C27 (served files stay under the root): a response with status 200 to a
\* request for a file carries a file inside the obfuscated build root, and a
\* request whose path resolves outside the root is answered with 403.
ServedUnderRoot ==
    \A r \in {response[k] : k \in 1..Len(response)} :
        r.filePath # <<>> =>
            /\ r.status = 200 => InsideRoot(r.filePath)
            /\ ~InsideRoot(r.filePath) => r.status = 403

\* C28 (temporary scripts removed): when run() has ended, with exit code 0
\* or after a failed phase, none of the three temporary phase scripts exists.
TempScriptsRemoved ==
    pc \in {"done", "failed"} => tempScripts = {}

====
